---- MODULE Spec2Model ----
(***************************************************************************)
(* Model of src/main.py: the YouTube-transcript-to-article Streamlit page. *)
(*                                                                         *)
(* Four specifications share this module:                                  *)
(*   Spec       one session's "Get Article" pipeline (main, get_transcript)*)
(*   SpecUrl    extract_video_id and the identifier get_transcript passes  *)
(*   SpecTime   format_timestamp                                           *)
(*   SpecMulti  several sessions sharing os.environ["OPENAI_API_KEY"]      *)
(*                                                                         *)
(* Text is modelled as sequences: a URL is a sequence of one-character     *)
(* strings, a message is a sequence of fragments.  Times are fixed-point,  *)
(* in tenths of a second, so that 59.9 s is the integer 599.               *)
(***************************************************************************)
EXTENDS Integers, Sequences, FiniteSets, TLC

\* ------------------------------------------------------------------ bounds
MaxChunks == 3
MaxEntries == 2
MaxHours == 2
NumSessions == 2

\* Python's None, for values that are otherwise strings.
None == "None"

\* Python's None where the value is otherwise a non-empty character sequence
\* (a regex capture of [\w-]+ has at least one character).
NoMatch == <<>>

\* ------------------------------------------------- extract_video_id (26-38)
\* A pattern element is a literal character or ANY, the unescaped regex dot.
ANY == "ANY"

YOUTUBE_COM == <<"y","o","u","t","u","b","e",".","c","o","m">>

\* r'(?:youtube\.com\/watch\?v=|youtu.be\/)([\w-]+)'   the dot of youtu.be is
\* not escaped in the source, so it is the wildcard.
\* r'youtube\.com\/embed\/([\w-]+)'
\* r'youtube\.com\/v\/([\w-]+)'
patterns ==
    << << YOUTUBE_COM \o <<"/","w","a","t","c","h","?","v","=">>,
          <<"y","o","u","t","u",ANY,"b","e","/">> >>,
       << YOUTUBE_COM \o <<"/","e","m","b","e","d","/">> >>,
       << YOUTUBE_COM \o <<"/","v","/">> >> >>

\* [\w-] restricted to the characters the model's inputs are built from.
IdChars ==
    {"a","b","c","d","e","f","g","h","i","j","k","l","m","n","o","p","q","r",
     "s","t","u","v","w","x","y","z","0","1","2","3","4","5","6","7","8","9",
     "_","-"}

IsIdChar(c) == c \in IdChars

\* One pattern element against one character ('.' matches all but newline).
ElemMatches(p, c) == IF p = ANY THEN c # "\n" ELSE p = c

\* The prefix alt matches s at position i and at least one [\w-] follows.
MatchAt(alt, s, i) ==
    /\ i + Len(alt) <= Len(s)
    /\ \A j \in 1..Len(alt) : ElemMatches(alt[j], s[i + j - 1])
    /\ IsIdChar(s[i + Len(alt)])

\* Last index of the greedy run of [\w-] that starts at index k.
RECURSIVE RunEnd(_, _)
RunEnd(s, k) ==
    IF k < Len(s) /\ IsIdChar(s[k + 1]) THEN RunEnd(s, k + 1) ELSE k

\* re.search(pattern, url): leftmost position where an alternative matches,
\* the first alternative at that position, group(1) the greedy run after it.
re_search(alts, s) ==
    LET hits == {i \in 1..Len(s) : \E a \in 1..Len(alts) : MatchAt(alts[a], s, i)}
    IN  IF hits = {} THEN NoMatch
        ELSE LET i == CHOOSE h \in hits : \A g \in hits : h <= g
                 a == CHOOSE x \in 1..Len(alts) :
                        /\ MatchAt(alts[x], s, i)
                        /\ \A y \in 1..Len(alts) : MatchAt(alts[y], s, i) => x <= y
                 k == i + Len(alts[a])
             IN  SubSeq(s, k, RunEnd(s, k))

RECURSIVE FirstMatch(_, _, _)
FirstMatch(pats, n, s) ==
    IF n > Len(pats) THEN NoMatch
    ELSE LET m == re_search(pats[n], s)
         IN  IF m # NoMatch THEN m ELSE FirstMatch(pats, n + 1, s)

extract_video_id(url) == FirstMatch(patterns, 1, url)

\* video_id = extract_video_id(video_url) or video_url          (line 53)
video_id_of(video_url) ==
    LET m == extract_video_id(video_url)
    IN  IF m # NoMatch THEN m ELSE video_url

\* ------------------------------------------------- format_timestamp (40-45)
DigitChars == <<"0","1","2","3","4","5","6","7","8","9">>

\* Decimal digits of a non-negative int, most significant first.
RECURSIVE Digits(_)
Digits(n) ==
    IF n < 10 THEN <<DigitChars[n + 1]>>
    ELSE Digits(n \div 10) \o <<DigitChars[(n % 10) + 1]>>

\* f"{n:02d}" for n >= 0
Pad02d(n) == IF n < 10 THEN <<"0">> \o Digits(n) ELSE Digits(n)

\* format_timestamp with the seconds rounded to nearest instead of truncated.
format_timestamp_rounding(t) ==
    LET hours   == t \div 36000
        minutes == (t % 36000) \div 600
        seconds == ((t % 600) + 5) \div 10
    IN  Pad02d(hours) \o <<":">> \o Pad02d(minutes) \o <<":">> \o Pad02d(seconds)

\* t is the float argument in tenths of a second; // and % floor, int()
\* drops the fraction of a non-negative value.
format_timestamp(t) ==
    LET hours   == t \div 36000
        minutes == (t % 36000) \div 600
        seconds == (t % 600) \div 10
    IN  Pad02d(hours) \o <<":">> \o Pad02d(minutes) \o <<":">> \o Pad02d(seconds)

\* ---------------------------------------------------------------- variables
VARIABLES
    \* Spec: one session's pipeline
    pc,              \* idle | fetching | pulling | invoking | done | failed
    url,             \* st.text_input("YouTube URL")
    language,        \* st.text_input("Language Code ...")
    env,             \* os.environ["OPENAI_API_KEY"]
    video_id,        \* identifier handed to YouTubeTranscriptApi.get_transcript
    transcript_list, \* what the transcript service returned
    formatted_text,  \* get_transcript's local: transcript text, then article
    llm_key,         \* credential the ChatOpenAI client was built with
    shown,           \* what the page shows after this script run
    calls,           \* external calls made in this script run
    raised,          \* the exception caught at line 72, if any
    \* SpecUrl
    u_url, u_id,
    \* SpecTime
    t_seconds, t_out,
    \* SpecMulti
    m_pc, m_key, m_env, m_llm_key

pipeVars == <<pc, url, language, env, video_id, transcript_list,
              formatted_text, llm_key, shown, calls, raised>>
urlVars == <<u_url, u_id>>
timeVars == <<t_seconds, t_out>>
multiVars == <<m_pc, m_key, m_env, m_llm_key>>
vars == <<pipeVars, urlVars, timeVars, multiVars>>

\* ------------------------------------------------------------ input domains
\* Caption entries as the transcript service returns them (start and
\* duration in tenths of a second).
Entries ==
    { [text |-> "intro", start |-> 0,     duration |-> 15],
      [text |-> "body",  start |-> 599,   duration |-> 0],
      [text |-> "outro", start |-> 36610, duration |-> 42] }

RECURSIVE SeqsUpTo(_, _)
SeqsUpTo(S, n) ==
    IF n = 0 THEN {<<>>}
    ELSE LET shorter == SeqsUpTo(S, n - 1)
         IN  shorter \cup {Append(q, x) : q \in shorter, x \in S}

Transcripts == SeqsUpTo(Entries, MaxEntries)

Urls == { <<>>, <<"a","b","c">>,
          <<"y","o","u","t","u",".","b","e","/","a","b","?","t","=","9">> }
Languages == {"en", "de"}
Keys == {"", "sk-A", "sk-B"}
\* message content returned by the completion model, as fragments
Articles == {<<"article one">>, <<"article two">>}

\* str(e) of an exception raised by a library call.  The code sees only this
\* text; it is a sequence of fragments and the two class names are fragments
\* of their own.
ExcTexts ==
    { <<"Connection error.">>,
      <<"Subtitles are disabled for this video">>,
      <<"No transcripts were found for any of the requested language codes">>,
      <<"TranscriptsDisabled">>,
      <<"NoTranscriptFound">>,
      <<"NoTranscriptFound", " for ", "TranscriptsDisabled">> }

\* The condition the transcript service raised (the exception's class).
FetchKinds == {"disabled", "notfound", "other"}

\* What str(e) can be for each condition: the library's own sentence for it,
\* or a text that carries the class name; any text for any other failure.
KindTexts(kind) ==
    CASE kind = "disabled" ->
            { <<"Subtitles are disabled for this video">>,
              <<"TranscriptsDisabled">> }
      [] kind = "notfound" ->
            { <<"No transcripts were found for any of the requested language codes">>,
              <<"NoTranscriptFound">>,
              <<"NoTranscriptFound", " for ", "TranscriptsDisabled">> }
      [] OTHER -> ExcTexts

\* ------------------------------------------------ get_transcript (47-78)
\* "needle" in error_msg, at fragment granularity
Contains(error_msg, needle) == \E i \in 1..Len(error_msg) : error_msg[i] = needle

\* the except block, lines 72-78: the message of the exception re-raised
reraise(error_msg, lang) ==
    IF Contains(error_msg, "TranscriptsDisabled")
    THEN <<"Transcripts are disabled for this video.">>
    ELSE IF Contains(error_msg, "NoTranscriptFound")
    THEN <<"No transcript found in language '", lang, "'.">>
    ELSE <<"Error fetching transcript: ">> \o error_msg

\* lines 57-60: one "[HH:MM:SS] text" line per entry, in order
formatted_lines(tl) ==
    [i \in 1..Len(tl) |->
        <<"[">> \o format_timestamp(tl[i].start) \o <<"] ", tl[i].text>>]

\* '\n'.join(lines)
RECURSIVE join(_)
join(lines) ==
    IF Len(lines) = 0 THEN <<>>
    ELSE IF Len(lines) = 1 THEN lines[1]
    ELSE lines[1] \o <<"\n">> \o join(Tail(lines))

\* ------------------------------------------------------ rendering (105-134)
\* json.dumps(raw_transcript, indent=2): one object per entry, keys in the
\* entry's own order
json_dumps(raw) ==
    [i \in 1..Len(raw) |->
        << <<"text", raw[i].text>>, <<"start", raw[i].start>>,
           <<"duration", raw[i].duration>> >>]

\* pd.DataFrame(raw_transcript): the columns are the keys of the entries, so
\* an empty list gives a frame without columns
df_columns(raw) == IF Len(raw) = 0 THEN {} ELSE {"text", "start", "duration"}

\* df[['timestamp', 'text', 'duration']] after line 132
df_rows(raw) ==
    [i \in 1..Len(raw) |->
        [timestamp |-> format_timestamp(raw[i].start),
         text |-> raw[i].text, duration |-> raw[i].duration]]

NothingShown ==
    [elements |-> {}, article |-> <<>>, txt |-> <<>>,
     json |-> <<>>, table |-> <<>>, error |-> <<>>]

NoCalls == [fetch |-> 0, hub |-> 0, invoke |-> 0]
NotRaised == [step |-> None, kind |-> None, text |-> <<>>]

\* st.error(str(e)), line 137, added to what is already on the page
show_error(page, msg) ==
    [page EXCEPT !.elements = @ \cup {"error"}, !.error = msg]

\* lines 105-134 with get_transcript's results; the page so far is empty
render(raw, article) ==
    LET upto_json ==
            [elements |-> {"article", "txt", "json"},
             article |-> article, txt |-> article,
             json |-> json_dumps(raw), table |-> <<>>, error |-> <<>>]
    IN  IF "start" \in df_columns(raw)
        THEN [upto_json EXCEPT !.elements = @ \cup {"table"},
                               !.table = df_rows(raw)]
        ELSE show_error(upto_json, <<"'start'">>)   \* str(KeyError('start'))

\* ------------------------------------------------------------ Spec: actions
\* A script run without the button (lines 87-97): any widget edit.
Rerun(u, l, k) ==
    /\ pc \in {"idle", "done", "failed"}
    /\ url' = u /\ language' = l /\ env' = k
    /\ pc' = "idle"
    /\ shown' = NothingShown
    /\ calls' = NoCalls /\ raised' = NotRaised
    /\ video_id' = NoMatch /\ transcript_list' = <<>>
    /\ formatted_text' = <<>> /\ llm_key' = None
    /\ UNCHANGED <<urlVars, timeVars, multiVars>>

\* "Get Article" with an empty URL (lines 98, 138-139).
GetArticleNoUrl(l, k) ==
    /\ pc \in {"idle", "done", "failed"}
    /\ url' = <<>> /\ language' = l /\ env' = k
    /\ pc' = "idle"
    /\ shown' = [NothingShown EXCEPT !.elements = {"warning"}]
    /\ calls' = NoCalls /\ raised' = NotRaised
    /\ video_id' = NoMatch /\ transcript_list' = <<>>
    /\ formatted_text' = <<>> /\ llm_key' = None
    /\ UNCHANGED <<urlVars, timeVars, multiVars>>

\* "Get Article" with a URL: lines 96-102 and 53-54, up to the blocking call
\* of the transcript service.
GetArticle(u, l, k) ==
    /\ pc \in {"idle", "done", "failed"}
    /\ u # <<>>
    /\ url' = u /\ language' = l /\ env' = k
    /\ video_id' = video_id_of(u)
    /\ calls' = [NoCalls EXCEPT !.fetch = 1]
    /\ pc' = "fetching"
    /\ shown' = NothingShown
    /\ raised' = NotRaised
    /\ transcript_list' = <<>> /\ formatted_text' = <<>> /\ llm_key' = None
    /\ UNCHANGED <<urlVars, timeVars, multiVars>>

\* The except blocks at 72-78 and 136-137: the caught exception is turned
\* into a message and shown.
fail(step, kind, text) ==
    /\ raised' = [step |-> step, kind |-> kind, text |-> text]
    /\ shown' = show_error(shown, reraise(text, language))
    /\ pc' = "failed"

\* FetchRaises with one retry of the transcript call before giving up.
FetchRaises_retry(kind, text) ==
    /\ pc = "fetching"
    /\ IF calls.fetch < 2
       THEN /\ calls' = [calls EXCEPT !.fetch = @ + 1]
            /\ UNCHANGED <<pc, shown, raised>>
       ELSE /\ fail("fetch", kind, text)
            /\ calls' = calls
    /\ UNCHANGED <<url, language, env, video_id, transcript_list,
                   formatted_text, llm_key>>
    /\ UNCHANGED <<urlVars, timeVars, multiVars>>

\* The transcript service raises (line 54).
FetchRaises(kind, text) ==
    /\ pc = "fetching"
    /\ fail("fetch", kind, text)
    /\ UNCHANGED <<url, language, env, video_id, transcript_list,
                   formatted_text, llm_key, calls>>
    /\ UNCHANGED <<urlVars, timeVars, multiVars>>

\* The transcript service returns; lines 57-65 run up to the blocking
\* hub.pull: the client is built from the environment as it is now.
FetchReturns(tl) ==
    /\ pc = "fetching"
    /\ transcript_list' = tl
    /\ formatted_text' = join(formatted_lines(tl))
    /\ llm_key' = env
    /\ calls' = [calls EXCEPT !.hub = @ + 1]
    /\ pc' = "pulling"
    /\ UNCHANGED <<url, language, env, video_id, shown, raised>>
    /\ UNCHANGED <<urlVars, timeVars, multiVars>>

\* The transcript service returns and ChatOpenAI(...) raises (line 64).
FetchReturnsLLMRaises(tl, text) ==
    /\ pc = "fetching"
    /\ transcript_list' = tl
    /\ formatted_text' = join(formatted_lines(tl))
    /\ fail("build", None, text)
    /\ UNCHANGED <<url, language, env, video_id, llm_key, calls>>
    /\ UNCHANGED <<urlVars, timeVars, multiVars>>

\* hub.pull raises (line 65).
PullRaises(text) ==
    /\ pc = "pulling"
    /\ fail("pull", None, text)
    /\ UNCHANGED <<url, language, env, video_id, transcript_list,
                   formatted_text, llm_key, calls>>
    /\ UNCHANGED <<urlVars, timeVars, multiVars>>

\* hub.pull returns; the chain is built and invoked (lines 66-68).
PullReturns ==
    /\ pc = "pulling"
    /\ calls' = [calls EXCEPT !.invoke = @ + 1]
    /\ pc' = "invoking"
    /\ UNCHANGED <<url, language, env, video_id, transcript_list,
                   formatted_text, llm_key, shown, raised>>
    /\ UNCHANGED <<urlVars, timeVars, multiVars>>

\* chain.invoke raises (line 68).
InvokeRaises(text) ==
    /\ pc = "invoking"
    /\ fail("invoke", None, text)
    /\ UNCHANGED <<url, language, env, video_id, transcript_list,
                   formatted_text, llm_key, calls>>
    /\ UNCHANGED <<urlVars, timeVars, multiVars>>

\* chain.invoke returns; get_transcript returns (line 70) and main renders
\* (lines 105-134); an exception while rendering is caught at line 136 and
\* shown below what was rendered before it.
InvokeReturns(article) ==
    /\ pc = "invoking"
    /\ formatted_text' = article
    /\ shown' = render(transcript_list, article)
    /\ IF "error" \in shown'.elements
       THEN /\ pc' = "failed"
            /\ raised' = [step |-> "render", kind |-> None, text |-> shown'.error]
       ELSE /\ pc' = "done"
            /\ raised' = raised
    /\ UNCHANGED <<url, language, env, video_id, transcript_list, llm_key, calls>>
    /\ UNCHANGED <<urlVars, timeVars, multiVars>>

\* The variables of the other specifications, at rest.
UrlIdle == u_url = NoMatch /\ u_id = NoMatch
TimeIdle == t_seconds = 0 /\ t_out = <<>>
MultiIdle == m_pc = <<>> /\ m_key = <<>> /\ m_env = None /\ m_llm_key = <<>>

PipeIdle ==
    /\ pc = "idle"
    /\ url = <<>> /\ language = "en" /\ env = None
    /\ video_id = NoMatch /\ transcript_list = <<>>
    /\ formatted_text = <<>> /\ llm_key = None
    /\ shown = NothingShown /\ calls = NoCalls /\ raised = NotRaised

\* The page before the first script run.
Init == PipeIdle /\ UrlIdle /\ TimeIdle /\ MultiIdle

Next ==
    \/ \E u \in Urls, l \in Languages, k \in Keys : Rerun(u, l, k)
    \/ \E l \in Languages, k \in Keys : GetArticleNoUrl(l, k)
    \/ \E u \in Urls, l \in Languages, k \in Keys : GetArticle(u, l, k)
    \/ \E kind \in FetchKinds : \E text \in KindTexts(kind) : FetchRaises(kind, text)
    \/ \E tl \in Transcripts : FetchReturns(tl)
    \/ \E tl \in Transcripts, text \in ExcTexts : FetchReturnsLLMRaises(tl, text)
    \/ \E text \in ExcTexts : PullRaises(text)
    \/ PullReturns
    \/ \E text \in ExcTexts : InvokeRaises(text)
    \/ \E a \in Articles : InvokeReturns(a)

Spec == Init /\ [][Next]_vars

\* ------------------------------------------------------------------ SpecUrl
\* Pieces the URL inputs are assembled from.
Chunks ==
    { YOUTUBE_COM \o <<"/","w","a","t","c","h","?","v","=">>,
      <<"y","o","u","t","u",".","b","e","/">>,
      <<"y","o","u","t","u","-","b","e","/">>,
      YOUTUBE_COM \o <<"/","e","m","b","e","d","/">>,
      YOUTUBE_COM \o <<"/","v","/">>,
      <<"y","o","u","t","u","b","e","-","c","o","m","/","v","/">>,
      <<"h","t","t","p","s",":","/","/">>,
      <<"a","b">>,
      <<"-","_","9">>,
      <<"&","t","=","1">>,
      <<"/">> }

RECURSIVE Concats(_)
Concats(n) ==
    IF n = 0 THEN {<<>>}
    ELSE LET shorter == Concats(n - 1)
         IN  shorter \cup {q \o c : q \in shorter, c \in Chunks}

UrlInputs == Concats(MaxChunks)

UrlInit == PipeIdle /\ TimeIdle /\ MultiIdle /\ u_url \in UrlInputs /\ u_id = NoMatch

\* main line 98 (a non-empty URL) and get_transcript lines 53-54: the
\* identifier the transcript service is called with.
ResolveId ==
    /\ u_url # <<>>
    /\ u_id = NoMatch
    /\ u_id' = video_id_of(u_url)
    /\ UNCHANGED <<u_url, pipeVars, timeVars, multiVars>>

UrlNext == ResolveId

SpecUrl == UrlInit /\ [][UrlNext]_vars

\* ----------------------------------------------------------------- SpecTime
Fractions == {0, 4, 5, 9}
HourSamples == (0..MaxHours) \cup {99, 100}

\* entry['start'] values, in tenths of a second
TimeInputs ==
    {(h * 3600 + s) * 10 + f : h \in HourSamples, s \in 0..3599, f \in Fractions}

TimeInit == PipeIdle /\ UrlIdle /\ MultiIdle /\ t_seconds \in TimeInputs /\ t_out = <<>>

\* timestamp = format_timestamp(entry['start'])         (lines 59 and 132)
Format ==
    /\ t_out = <<>>
    /\ t_out' = format_timestamp(t_seconds)
    /\ UNCHANGED <<t_seconds, pipeVars, urlVars, multiVars>>

TimeNext == Format

SpecTime == TimeInit /\ [][TimeNext]_vars

\* ---------------------------------------------------------------- SpecMulti
\* Sessions are script threads of one process; os.environ is shared.
Sessions == 1..NumSessions
UserKeys == {"sk-A", "sk-B"}

MultiInit ==
    /\ PipeIdle /\ UrlIdle /\ TimeIdle
    /\ m_pc = [s \in Sessions |-> "idle"]
    /\ m_key = [s \in Sessions |-> None]
    /\ m_env = None
    /\ m_llm_key = [s \in Sessions |-> None]

\* Session s runs the script top (lines 91-96) with key k in its text box;
\* pressed: the button is down and the URL is non-empty (lines 97-102), so
\* the run goes on into the blocking transcript fetch.
MScriptRun(s, k, pressed) ==
    /\ m_pc[s] \in {"idle", "done", "failed"}
    /\ m_key' = [m_key EXCEPT ![s] = k]
    /\ m_env' = k
    /\ m_llm_key' = [m_llm_key EXCEPT ![s] = None]
    /\ m_pc' = [m_pc EXCEPT ![s] = IF pressed THEN "fetching" ELSE "idle"]
    /\ UNCHANGED <<pipeVars, urlVars, timeVars>>

\* An exception in get_transcript of session s (lines 54, 64, 65 or 68).
MRaises(s) ==
    /\ m_pc[s] \in {"fetching", "pulling", "invoking"}
    /\ m_pc' = [m_pc EXCEPT ![s] = "failed"]
    /\ UNCHANGED <<m_key, m_env, m_llm_key, pipeVars, urlVars, timeVars>>

\* MFetchReturns with the session's own key handed to the client.
MFetchReturns_own_key(s) ==
    /\ m_pc[s] = "fetching"
    /\ m_llm_key' = [m_llm_key EXCEPT ![s] = m_key[s]]
    /\ m_pc' = [m_pc EXCEPT ![s] = "pulling"]
    /\ UNCHANGED <<m_key, m_env, pipeVars, urlVars, timeVars>>

\* The fetch of session s returns; ChatOpenAI() reads the environment.
MFetchReturns(s) ==
    /\ m_pc[s] = "fetching"
    /\ m_llm_key' = [m_llm_key EXCEPT ![s] = m_env]
    /\ m_pc' = [m_pc EXCEPT ![s] = "pulling"]
    /\ UNCHANGED <<m_key, m_env, pipeVars, urlVars, timeVars>>

\* hub.pull of session s returns; the completion call is made (line 68).
MPullReturns(s) ==
    /\ m_pc[s] = "pulling"
    /\ m_pc' = [m_pc EXCEPT ![s] = "invoking"]
    /\ UNCHANGED <<m_key, m_env, m_llm_key, pipeVars, urlVars, timeVars>>

\* The completion call of session s returns and the page is rendered.
MInvokeReturns(s) ==
    /\ m_pc[s] = "invoking"
    /\ m_pc' = [m_pc EXCEPT ![s] = "done"]
    /\ UNCHANGED <<m_key, m_env, m_llm_key, pipeVars, urlVars, timeVars>>

MultiNext ==
    \/ \E s \in Sessions, k \in UserKeys, b \in BOOLEAN : MScriptRun(s, k, b)
    \/ \E s \in Sessions : MRaises(s)
    \/ \E s \in Sessions : MFetchReturns(s)
    \/ \E s \in Sessions : MPullReturns(s)
    \/ \E s \in Sessions : MInvokeReturns(s)

SpecMulti == MultiInit /\ [][MultiNext]_vars

\* =================================================================== claims
Finished == pc \in {"done", "failed"}

\* The value chain.invoke returned has been assigned (line 68).
GenerationCompleted == formatted_text \in Articles

DisabledMessage == <<"Transcripts are disabled for this video.">>
NotFoundMessage(lang) == <<"No transcript found in language '", lang, "'.">>
GenericMessage(text) == <<"Error fetching transcript: ">> \o text

\* C1: when a request with a non-empty URL has finished, the page shows
\* either the article, both downloads and the table and no error, or the
\* error alone.
C1_AllOrNothing ==
    Finished =>
        \/ shown.elements = {"article", "txt", "json", "table"}
        \/ shown.elements = {"error"}

\* The states of the request pipeline named by the specification.
Phase(p) ==
    CASE p = "idle" -> "Idle"
      [] p = "fetching" -> "Fetching"
      [] p \in {"pulling", "invoking"} -> "Generating"
      [] p = "done" -> "Done"
      [] p = "failed" -> "Failed"

PhaseSteps ==
    { <<"Idle", "Fetching">>, <<"Fetching", "Generating">>,
      <<"Generating", "Done">>, <<"Fetching", "Failed">>,
      <<"Generating", "Failed">> }

\* C2: within a request the phase moves only along Idle -> Fetching ->
\* Generating -> Done, Failed is entered only from Fetching or Generating and
\* never once generation has completed, Generating only with the fetched
\* transcript and Done only with the generated article; Done and Failed are
\* left only by a new script run.
C2_PhaseOrder ==
    [][ Phase(pc') # Phase(pc) =>
          IF Finished
          THEN pc' \in {"idle", "fetching"} /\ raised' = NotRaised
          ELSE /\ <<Phase(pc), Phase(pc')>> \in PhaseSteps
               /\ Phase(pc') = "Failed" => ~GenerationCompleted'
               /\ Phase(pc') = "Generating" => raised'.step = None
               /\ Phase(pc') = "Done" => GenerationCompleted' ]_vars

\* C3: when the transcript service raised its disabled condition, the page
\* shows exactly the disabled message and nothing else, and no step of the
\* article generation ran.
C3_DisabledMessage ==
    (raised.step = "fetch" /\ raised.kind = "disabled") =>
        /\ shown.elements = {"error"}
        /\ shown.error = DisabledMessage
        /\ calls.hub = 0 /\ calls.invoke = 0 /\ llm_key = None

\* C4: a failure of the generation step (client, template or chain) is shown
\* as the generic prefix followed by the raw message.
C4_GenerationIsGeneric ==
    raised.step \in {"build", "pull", "invoke"} =>
        shown.error = GenericMessage(raised.text)

\* C5: when the transcript service raised its not-found condition, the page
\* shows the not-found message with the language code of the request.
C5_NotFoundMessage ==
    (raised.step = "fetch" /\ raised.kind = "notfound") =>
        shown.error = NotFoundMessage(language)

\* C6: in one request the transcript service and the completion service are
\* each called at most once; after a failure no later external call has been
\* made and the failure is on the page.
C6_NoRetry ==
    /\ calls.fetch <= 1 /\ calls.hub <= 1 /\ calls.invoke <= 1
    /\ raised.step \in {"fetch", "build"} => calls.hub = 0 /\ calls.invoke = 0
    /\ raised.step = "pull" => calls.invoke = 0
    /\ raised.step # None =>
          /\ pc = "failed"
          /\ "error" \in shown.elements
          /\ shown.error # <<>>

C6_Witness ==
    /\ raised.step = "invoke"
    /\ calls = [fetch |-> 1, hub |-> 1, invoke |-> 1]
    /\ shown.elements = {"error"}

\* C7: after a successful fetch of N entries and a successful completion,
\* the JSON download has N objects with text, start and duration and the
\* table has N rows, both in the order of the fetch.
C7_RawEntriesKept ==
    (Finished /\ GenerationCompleted) =>
        LET N == Len(transcript_list) IN
        /\ "json" \in shown.elements
        /\ Len(shown.json) = N
        /\ \A i \in 1..N :
              shown.json[i] = << <<"text", transcript_list[i].text>>,
                                 <<"start", transcript_list[i].start>>,
                                 <<"duration", transcript_list[i].duration>> >>
        /\ "table" \in shown.elements
        /\ Len(shown.table) = N
        /\ \A i \in 1..N :
              /\ shown.table[i].text = transcript_list[i].text
              /\ shown.table[i].duration = transcript_list[i].duration

\* The supported URL shapes, as literal prefixes, in the order tried.
shapes ==
    << { YOUTUBE_COM \o <<"/","w","a","t","c","h","?","v","=">>,
         <<"y","o","u","t","u",".","b","e","/">> },
       { YOUTUBE_COM \o <<"/","e","m","b","e","d","/">> },
       { YOUTUBE_COM \o <<"/","v","/">> } >>

\* The prefix pre occurs in s at i, directly followed by an identifier
\* character.
ShapeAt(pre, s, i) ==
    /\ i + Len(pre) <= Len(s)
    /\ SubSeq(s, i, i + Len(pre) - 1) = pre
    /\ IsIdChar(s[i + Len(pre)])

HasShape(n, s) == \E pre \in shapes[n] : \E i \in 1..Len(s) : ShapeAt(pre, s, i)

\* id is a maximal run of identifier characters directly after a prefix of
\* shape n in s.
IsCaptureOf(id, n, s) ==
    \E pre \in shapes[n] : \E i \in 1..Len(s) :
        /\ ShapeAt(pre, s, i)
        /\ LET k == i + Len(pre)
               e == k + Len(id) - 1
           IN  /\ e <= Len(s)
               /\ id = SubSeq(s, k, e)
               /\ \A j \in k..e : IsIdChar(s[j])
               /\ e = Len(s) \/ ~IsIdChar(s[e + 1])

\* C8: the identifier passed on is the capture of the first shape that the
\* input matches; an input that matches no shape is passed unchanged.
C8_IdentifierPassed ==
    u_id # NoMatch =>
        IF \E n \in 1..3 : HasShape(n, u_url)
        THEN LET n == CHOOSE m \in 1..3 :
                        HasShape(m, u_url) /\ \A l \in 1..(m - 1) : ~HasShape(l, u_url)
             IN  IsCaptureOf(u_id, n, u_url)
        ELSE u_id = u_url /\ extract_video_id(u_url) = NoMatch

IsDigit(c) == c \in {"0","1","2","3","4","5","6","7","8","9"}

DigitValue(c) ==
    CASE c = "0" -> 0 [] c = "1" -> 1 [] c = "2" -> 2 [] c = "3" -> 3
      [] c = "4" -> 4 [] c = "5" -> 5 [] c = "6" -> 6 [] c = "7" -> 7
      [] c = "8" -> 8 [] c = "9" -> 9

RECURSIVE FieldValue(_)
FieldValue(f) ==
    IF f = <<>> THEN 0
    ELSE FieldValue(SubSeq(f, 1, Len(f) - 1)) * 10 + DigitValue(f[Len(f)])

IsNumber(f) == Len(f) >= 2 /\ \A i \in 1..Len(f) : IsDigit(f[i])

\* C9: the output reads HH:MM:SS with two-digit MM and SS below 60, HH of at
\* least two digits and not wrapped, and the three fields add up to the
\* input truncated to whole seconds; 0, 3661 and 59.9 give the stated texts.
C9_TimestampFormat ==
    t_out # <<>> =>
        LET s == t_seconds \div 10
            colons == {i \in 1..Len(t_out) : t_out[i] = ":"}
            c1 == CHOOSE i \in colons : \A j \in colons : i <= j
            c2 == CHOOSE i \in colons : \A j \in colons : i >= j
            HH == SubSeq(t_out, 1, c1 - 1)
            MM == SubSeq(t_out, c1 + 1, c2 - 1)
            SS == SubSeq(t_out, c2 + 1, Len(t_out))
        IN  /\ Cardinality(colons) = 2
            /\ IsNumber(HH) /\ IsNumber(MM) /\ IsNumber(SS)
            /\ Len(MM) = 2 /\ Len(SS) = 2
            /\ Len(HH) > 2 => HH[1] # "0"
            /\ FieldValue(HH) = s \div 3600
            /\ FieldValue(MM) = (s % 3600) \div 60
            /\ FieldValue(SS) = s % 60
            /\ FieldValue(MM) < 60 /\ FieldValue(SS) < 60
            /\ FieldValue(HH) * 3600 + FieldValue(MM) * 60 + FieldValue(SS) = s
            /\ t_seconds = 0 => t_out = <<"0","0",":","0","0",":","0","0">>
            /\ t_seconds = 36610 => t_out = <<"0","1",":","0","1",":","0","1">>
            /\ t_seconds = 599 => t_out = <<"0","0",":","0","0",":","5","9">>

C9_Witness ==
    /\ t_seconds = 100 * 36000 + 599
    /\ t_out = <<"1","0","0",":","0","0",":","5","9">>

\* C10: a session's script run leaves its key in the shared variable, the
\* client takes its key from that variable and only once the fetch has
\* returned; so a request can run with the key of another session.
C10_SharedCredential ==
    /\ [](\A s \in DOMAIN m_pc :
            m_pc[s] \in {"idle", "fetching"} => m_llm_key[s] = None)
    /\ [][\A s \in DOMAIN m_pc :
            /\ m_key'[s] # m_key[s] => m_env' = m_key'[s]
            /\ (m_pc[s] \in {"idle", "done", "failed"} /\ m_pc'[s] = "fetching")
                  => m_env' = m_key'[s]
            /\ m_llm_key'[s] \notin {None, m_llm_key[s]}
                  => (m_pc[s] = "fetching" /\ m_llm_key'[s] = m_env)]_vars

\* The completion call of s is in flight with the key another session typed.
C10_Witness ==
    \E s \in DOMAIN m_pc, u \in DOMAIN m_pc :
        /\ s # u
        /\ m_pc[s] = "invoking"
        /\ m_llm_key[s] # m_key[s]
        /\ m_llm_key[s] = m_key[u]

====
